---- MODULE Spec2Model ----
(***************************************************************************)
(* State-space search of question2.py: the Problem contract, the concrete  *)
(* MissionaryAndCannibals problem, the search-tree Node, and the search    *)
(* entry points uniform_cost_search, iterative_deepening_search (over      *)
(* depth_limited_search), greedy best_first_graph_search, astar_search and *)
(* recursive_best_first_search, called one after the other on one problem  *)
(* as the module-level driver does.                                        *)
(*                                                                         *)
(* Numbers: the heuristic of the source is (m + c)/2, a multiple of 1/2.   *)
(* Every f-value and every heuristic value of the model is kept in HALF    *)
(* units (twice the source's value) so that it stays an integer; path      *)
(* costs and depths are kept in whole units as in the source.              *)
(***************************************************************************)
EXTENDS Integers, Sequences, FiniteSets, TLC

VARIABLES problem,    \* the Problem instance handed to every search
          harg,       \* the h argument of the informed searches
          phase,      \* index into Driver of the call in progress / next
          alg,        \* the entry point now running, or "idle"
          results,    \* what each entry point returned
          pc,         \* position inside best_first_graph_search
          node,       \* best_first_graph_search: the node popped last
          frontier,   \* best_first_graph_search: PriorityQueue.A
          explored,   \* best_first_graph_search: set of expanded states
          children,   \* best_first_graph_search: rest of the for loop
          bstats,     \* observation of one best_first_graph_search run
          depth,      \* iterative_deepening_search: loop variable
          dstack,     \* recursive_dls: call stack, innermost frame first
          dret,       \* recursive_dls: value being returned
          dexplored,  \* depth_limited_search: its explored set
          dstats,     \* observation of one depth_limited_search run
          rstack,     \* RBFS: call stack, innermost frame first
          rret,       \* RBFS: (result, f) being returned
          rpath       \* recursive_best_first_search: its path set

vars == <<problem, harg, phase, alg, results, pc, node, frontier, explored,
          children, bstats, depth, dstack, dret, dexplored, dstats, rstack, rret,
          rpath>>

----------------------------------------------------------------------------
(* Bounds of the model *)

\* step costs of the synthetic graph problems range over 0..MaxCost
MaxCost == 1
\* heuristic arguments of the synthetic graph problems range over 0..MaxH
\* (whole units, as the step costs)
MaxH == 2
\* a call of iterative_deepening_search is abandoned when its depth would
\* exceed MaxDepthOther, and an RBFS call when its recursion would get deeper
MaxDepthOther == 4
\* the same on the problem of the driver, missionaries-and-cannibals from
\* (3,3,1) to (0,0,0)
MaxDepthDriver == 9

\* infinity = float('inf'): larger than every f-value of the model
infinity == 1000000

----------------------------------------------------------------------------
(* Sequences *)

Min2(a, b) == IF a <= b THEN a ELSE b
Max2(a, b) == IF a >= b THEN a ELSE b

InSeq(x, s) == \E i \in 1..Len(s) : s[i] = x

\* list.remove(x): drop the first occurrence of x (the list is returned
\* unchanged when x is absent, where Python raises ValueError: see
\* RemoveRaises)
ListRemove(s, x) ==
  IF InSeq(x, s)
  THEN LET i == CHOOSE k \in 1..Len(s) :
                  s[k] = x /\ \A j \in 1..(k-1) : s[j] # x
       IN SubSeq(s, 1, i-1) \o SubSeq(s, i+1, Len(s))
  ELSE s

RECURSIVE RemoveEach(_, _)
RemoveEach(s, xs) ==
  IF xs = <<>> THEN s ELSE RemoveEach(ListRemove(s, Head(xs)), Tail(xs))

\* some remove of the sequence xs finds its element already gone
RECURSIVE RemoveRaises(_, _)
RemoveRaises(s, xs) ==
  IF xs = <<>> THEN FALSE
  ELSE \/ ~InSeq(Head(xs), s)
       \/ RemoveRaises(ListRemove(s, Head(xs)), Tail(xs))

\* variant of StateLT: the order of the states is reversed
StateLT_Reversed(s, t) ==
  /\ s # t
  /\ \E k \in 1..Len(s) :
       /\ \A j \in 1..(k - 1) : s[j] = t[j]
       /\ s[k] > t[k]

\* Python's order of tuples
RECURSIVE StateLT(_, _)
StateLT(s, t) ==
  IF s = <<>> THEN t # <<>>
  ELSE IF t = <<>> THEN FALSE
  ELSE IF Head(s) # Head(t) THEN Head(s) < Head(t)
  ELSE StateLT(Tail(s), Tail(t))

----------------------------------------------------------------------------
(* The problems *)

\* states of the synthetic graph problems
GraphStates == {<<1>>, <<2>>, <<3>>}
\* the edges a graph problem may have; a goal is never expanded by any of
\* the searches, so edges out of <<3>> are left out
EdgePairs == {<<1, 2>>, <<1, 3>>, <<2, 1>>, <<2, 3>>}
NoEdge == -1
NoCost == [e \in EdgePairs |-> NoEdge]
NoH == [s \in GraphStates |-> 0]

\* Problem subclasses with a weighted graph: initial state <<1>>; the goal is
\* <<3>>, or the state <<4>> that no edge leads to (then <<3>> is an ordinary
\* state without successors, reached over one edge or over two)
GraphProblems ==
  [kind : {"graph"}, initial : {<<1>>}, goal : {<<3>>, <<4>>},
   cost : [EdgePairs -> {NoEdge} \cup 0..MaxCost]]

\* MissionaryAndCannibals(initial, goal)
MCProblems ==
  [kind : {"mc"}, initial : {<<3, 3, 1>>},
   goal : {<<0, 0, 0>>, <<3, 3, 1>>, <<0, 1, 0>>}, cost : {NoCost}]

missandcan == [kind |-> "mc", initial |-> <<3, 3, 1>>, goal |-> <<0, 0, 0>>,
               cost |-> NoCost]

Problems == GraphProblems \cup MCProblems

positive_actions == << <<1,0,1>>, <<2,0,1>>, <<0,1,1>>, <<0,2,1>>, <<1,1,1>> >>
negative_actions == << <<-1,0,-1>>, <<-2,0,-1>>, <<0,-1,-1>>, <<0,-2,-1>>, <<-1,-1,-1>> >>

find_direction(state) == state[3]

\* tuple(map(operator.add, state, action))
AddTuple(state, action) == [i \in 1..3 |-> state[i] + action[i]]

\* variant of MCRemovals: the tests of lines 95 and 109 for one cannibal
\* (two cannibals) also take the case of none (three)
MCRemovals_LooseGuard(state) ==
  IF find_direction(state) = 1
  THEN (IF state[1] = 0 THEN << <<-1,0,-1>>, <<-2,0,-1>>, <<-1,-1,-1>> >> ELSE <<>>)
       \o (IF state[2] = 0 THEN << <<0,-1,-1>>, <<0,-2,-1>>, <<-1,-1,-1>> >> ELSE <<>>)
       \o (IF state[1] = 1 THEN << <<-2,0,-1>> >> ELSE <<>>)
       \o (IF state[2] <= 1 THEN << <<0,-2,-1>> >> ELSE <<>>)
  ELSE (IF state[1] = 3 THEN << <<1,0,1>>, <<2,0,1>>, <<1,1,1>> >> ELSE <<>>)
       \o (IF state[2] = 3 THEN << <<0,1,1>>, <<0,2,1>>, <<1,1,1>> >> ELSE <<>>)
       \o (IF state[1] = 2 THEN << <<2,0,1>> >> ELSE <<>>)
       \o (IF state[2] >= 2 THEN << <<0,2,1>> >> ELSE <<>>)

\* the removes of MissionaryAndCannibals.actions before the final loop
MCRemovals(state) ==
  IF find_direction(state) = 1
  THEN (IF state[1] = 0 THEN << <<-1,0,-1>>, <<-2,0,-1>>, <<-1,-1,-1>> >> ELSE <<>>)
       \o (IF state[2] = 0 THEN << <<0,-1,-1>>, <<0,-2,-1>>, <<-1,-1,-1>> >> ELSE <<>>)
       \o (IF state[1] = 1 THEN << <<-2,0,-1>> >> ELSE <<>>)
       \o (IF state[2] = 1 THEN << <<0,-2,-1>> >> ELSE <<>>)
  ELSE (IF state[1] = 3 THEN << <<1,0,1>>, <<2,0,1>>, <<1,1,1>> >> ELSE <<>>)
       \o (IF state[2] = 3 THEN << <<0,1,1>>, <<0,2,1>>, <<1,1,1>> >> ELSE <<>>)
       \o (IF state[1] = 2 THEN << <<2,0,1>> >> ELSE <<>>)
       \o (IF state[2] = 2 THEN << <<0,2,1>> >> ELSE <<>>)

MCBase(state) ==
  IF find_direction(state) = 1 THEN negative_actions ELSE positive_actions

\* variant of MCRejects: states with as many cannibals as missionaries are
\* rejected too
MCRejects_OrEqual(state, i) ==
  LET new_state == AddTuple(state, i) IN new_state[1] <= new_state[2]

\* the test of the final loop of MissionaryAndCannibals.actions
MCRejects(state, i) ==
  LET new_state == AddTuple(state, i) IN new_state[1] < new_state[2]

MCActions(state) ==
  LET possible_actions == RemoveEach(MCBase(state), MCRemovals(state))
      p == possible_actions
  IN RemoveEach(possible_actions, SelectSeq(p, LAMBDA i : MCRejects(state, i)))

\* actions of a graph problem: one action <<t>> per edge out of the state, in
\* the order of the target states
RECURSIVE GraphActionsFrom(_, _, _)
GraphActionsFrom(p, state, t) ==
  IF t > 3 THEN <<>>
  ELSE (IF <<state[1], t>> \in EdgePairs /\ p.cost[<<state[1], t>>] # NoEdge
        THEN << <<t>> >> ELSE <<>>)
       \o GraphActionsFrom(p, state, t + 1)

actions(p, state) ==
  IF p.kind = "mc" THEN MCActions(state) ELSE GraphActionsFrom(p, state, 1)

result(p, state, action) ==
  IF p.kind = "mc" THEN AddTuple(state, action) ELSE action

goal_test(p, state) == state = p.goal

path_cost(p, c, state1, action, state2) ==
  IF p.kind = "mc" THEN c + 1 ELSE c + p.cost[<<state1[1], state2[1]>>]

\* MissionaryAndCannibals.h in half units: 2 * ((m + c) / 2)
MCh(state) == state[1] + state[2]

\* h or problem.h, in half units
h(p, ha, state) == IF p.kind = "mc" THEN MCh(state) ELSE 2 * ha[state]

----------------------------------------------------------------------------
(* Node *)

\* A node keeps its parent chain as the list of actions from the root
\* (Node.solution()); f is the cached evaluation (the attribute set by
\* memoize(f, 'f') or by RBFS), in half units.
NoF == -1

Node(state, path, cost, d) ==
  [state |-> state, path |-> path, path_cost |-> cost, depth |-> d, f |-> NoF]

NoNode == Node(<<>>, <<>>, 0, 0)

child_node(p, n, action) ==
  LET next_state == result(p, n.state, action)
  IN Node(next_state, Append(n.path, action),
          path_cost(p, n.path_cost, n.state, action, next_state),
          n.depth + 1)

expand(p, n) ==
  LET acts == actions(p, n.state)
  IN [i \in 1..Len(acts) |-> child_node(p, n, acts[i])]

solution(n) == n.path

\* the state reached by applying result() along a list of actions
RECURSIVE ApplyAll(_, _, _)
ApplyAll(p, state, acts) ==
  IF acts = <<>> THEN state
  ELSE ApplyAll(p, result(p, state, Head(acts)), Tail(acts))

\* the states visited along a list of actions, the start included
RECURSIVE StatesAlong(_, _, _)
StatesAlong(p, state, acts) ==
  IF acts = <<>> THEN <<state>>
  ELSE <<state>> \o StatesAlong(p, result(p, state, Head(acts)), Tail(acts))

----------------------------------------------------------------------------
(* Results and the driver *)

\* what a search returns: a Node, None (failure) or 'cutoff'; "unset" before
\* the call returns, "abandoned" when the call ran past the depth bound of
\* the model
Res(kind, n) == [kind |-> kind, node |-> n]
ResNode(n) == Res("node", n)
ResNone == Res("None", NoNode)
ResCutoff == Res("cutoff", NoNode)
ResUnset == Res("unset", NoNode)
ResAbandoned == Res("abandoned", NoNode)

\* the calls of the module-level driver, in its order
Driver == <<"ucs", "ids", "greedy", "astar", "rbfs">>
Algs == {"ucs", "ids", "greedy", "astar", "rbfs"}

MaxDepth(p) == IF p = missandcan THEN MaxDepthDriver ELSE MaxDepthOther

\* the h arguments a caller may pass: none for MissionaryAndCannibals, which
\* has its own h; any table for a graph problem
HArgs(p) ==
  IF p.kind = "mc" THEN {NoH} ELSE [GraphStates -> 0..MaxH]

NoStats == [limit |-> 0, hit |-> FALSE]

\* what is recorded of a best_first_graph_search run: the nodes expanded
\* (popped and added to explored), in order, the pair <<state, f>> of every
\* node generated, and how often lines 229-230 replaced a queued node
NoBStats == [expanded |-> <<>>, generated |-> {}, replaced |-> 0]

Init ==
  /\ problem \in Problems
  /\ harg = NoH
  /\ phase = 1
  /\ alg = "idle"
  /\ results = [a \in Algs |-> ResUnset]
  /\ pc = "idle"
  /\ node = NoNode
  /\ frontier = <<>>
  /\ explored = {}
  /\ children = <<>>
  /\ bstats = NoBStats
  /\ depth = 0
  /\ dstack = <<>>
  /\ dret = ResUnset
  /\ dexplored = {}
  /\ dstats = NoStats
  /\ rstack = <<>>
  /\ rret = [result |-> ResUnset, f |-> 0]
  /\ rpath = {}

bfgsVars == <<pc, node, frontier, explored, children, bstats>>
dlsVars == <<depth, dstack, dret, dexplored, dstats>>
rbfsVars == <<rstack, rret, rpath>>

\* the entry point returns r to the driver, which goes on to its next call
Return(r) ==
  /\ results' = [results EXCEPT ![alg] = r]
  /\ alg' = "idle"
  /\ phase' = phase + 1

----------------------------------------------------------------------------
(* PriorityQueue('min', f) and memoize of aima3.utils *)

\* variant of EvalF: A* leaves the path cost out of f
EvalF_AStarWithoutG(a, p, ha, n) ==
  CASE a = "ucs" -> 2 * n.path_cost
    [] a = "greedy" -> h(p, ha, n.state)
    [] a = "astar" -> h(p, ha, n.state)

\* variant of EvalF: A* subtracts h from the path cost
EvalF_AStarMinusH(a, p, ha, n) ==
  CASE a = "ucs" -> 2 * n.path_cost
    [] a = "greedy" -> h(p, ha, n.state)
    [] a = "astar" -> 2 * n.path_cost - h(p, ha, n.state)

\* the evaluation function f of each best-first entry point, in half units
\* (lines 279, 335 and 324)
EvalF(a, p, ha, n) ==
  CASE a = "ucs" -> 2 * n.path_cost
    [] a = "greedy" -> h(p, ha, n.state)
    [] a = "astar" -> 2 * n.path_cost + h(p, ha, n.state)

\* memoize(f, 'f'): the value is computed once and cached on the node
memoize(a, p, ha, n) ==
  IF n.f # NoF THEN n ELSE [n EXCEPT !.f = EvalF(a, p, ha, n)]

\* (f1, node1) < (f2, node2) as Python compares the pairs of PriorityQueue.A:
\* by f, ties by Node.__lt__, and equal nodes (equal states) are not less
PairLT(n1, n2) ==
  IF n1.f # n2.f THEN n1.f < n2.f
  ELSE IF n1.state = n2.state THEN FALSE
  ELSE StateLT(n1.state, n2.state)

\* PriorityQueue.append: insert in order (after the entries not greater)
PQAppend(A, n) ==
  LET k == Cardinality({i \in 1..Len(A) : ~PairLT(n, A[i])})
  IN SubSeq(A, 1, k) \o <<n>> \o SubSeq(A, k + 1, Len(A))

\* PriorityQueue.pop with order 'min': the first entry
PQPop(A) == Head(A)
PQRest(A) == Tail(A)

\* item in PriorityQueue, by Node.__eq__
PQContains(A, n) == \E i \in 1..Len(A) : A[i].state = n.state

\* PriorityQueue[item]
PQGet(A, n) ==
  A[CHOOSE i \in 1..Len(A) :
      A[i].state = n.state /\ \A j \in 1..(i-1) : A[j].state # n.state]

\* del PriorityQueue[item]
PQDel(A, n) == SelectSeq(A, LAMBDA e : e.state # n.state)

----------------------------------------------------------------------------
(* best_first_graph_search *)

IsBFGS(a) == a \in {"ucs", "greedy", "astar"}

\* lines 211-215: the queue holds the root, explored is empty
BFGSEnter(a) ==
  /\ alg' = a
  /\ node' = Node(problem.initial, <<>>, 0, 0)
  /\ frontier' = PQAppend(<<>>, memoize(a, problem, harg', node'))
  /\ explored' = {}
  /\ children' = <<>>
  /\ bstats' = [NoBStats EXCEPT !.generated =
                  {<<node'.state, memoize(a, problem, harg', node').f>>}]
  /\ pc' = "loop"
  /\ UNCHANGED <<problem, phase, results, dlsVars, rbfsVars>>

\* uniform_cost_search(problem)
CallUCS ==
  /\ alg = "idle" /\ phase <= Len(Driver) /\ Driver[phase] = "ucs"
  /\ harg' = harg
  /\ BFGSEnter("ucs")

\* best_first_graph_search(problem, h): the caller's h is chosen here and
\* kept for the informed searches that follow
CallGreedy ==
  /\ alg = "idle" /\ phase <= Len(Driver) /\ Driver[phase] = "greedy"
  /\ harg' \in HArgs(problem)
  /\ BFGSEnter("greedy")

\* astar_search(problem, h)
CallAStar ==
  /\ alg = "idle" /\ phase <= Len(Driver) /\ Driver[phase] = "astar"
  /\ harg' = harg
  /\ BFGSEnter("astar")

\* variant of BFGSReturns: the goal test is inverted
BFGSReturns_Inverted(p, n) == ~goal_test(p, n.state)

\* line 221: the popped node is returned
BFGSReturns(p, n) == goal_test(p, n.state)

\* variant of BFGSExplore: the state is not recorded
BFGSExplore_Forgets(ex, n) == ex

\* line 223: explored.add(node.state)
BFGSExplore(ex, n) == ex \cup {n.state}

\* lines 217-223 and 224 (the expansion): pop, goal test, explore, expand
BFGSPop ==
  /\ IsBFGS(alg) /\ pc = "loop" /\ frontier # <<>>
  /\ LET n == PQPop(frontier) IN
       /\ node' = n
       /\ frontier' = PQRest(frontier)
       /\ IF BFGSReturns(problem, n)
          THEN /\ Return(ResNode(n))
               /\ pc' = "idle"
               /\ UNCHANGED <<explored, children, bstats>>
          ELSE /\ explored' = BFGSExplore(explored, n)
               /\ bstats' = [bstats EXCEPT !.expanded = Append(@, n)]
               /\ children' = expand(problem, n)
               /\ pc' = IF children' = <<>> THEN "loop" ELSE "for"
               /\ UNCHANGED <<results, alg, phase>>
  /\ UNCHANGED <<problem, harg, dlsVars, rbfsVars>>

\* lines 227-228: the child's state is queued with a greater f
BFGSImproves(A, child) ==
  /\ PQContains(A, child)
  /\ memoize(alg, problem, harg, child).f < PQGet(A, child).f

\* variant of BFGSAfterChild: a child whose state is queued is dropped, also
\* when it is cheaper (no replace-on-improve)
BFGSAfterChild_NoReplace(A, ex, child) ==
  LET c == memoize(alg, problem, harg, child) IN
  IF child.state \notin ex /\ ~PQContains(A, child)
  THEN PQAppend(A, c)
  ELSE A

\* variant of BFGSAfterChild: a cheaper child is appended and the stored node
\* of its state is left in the queue
BFGSAfterChild_NoDelete(A, ex, child) ==
  LET c == memoize(alg, problem, harg, child) IN
  IF child.state \notin ex /\ ~PQContains(A, child)
  THEN PQAppend(A, c)
  ELSE IF PQContains(A, child)
       THEN IF c.f < PQGet(A, child).f
            THEN PQAppend(A, c)
            ELSE A
       ELSE A

\* variant of BFGSAfterChild: explored is not looked at
BFGSAfterChild_IgnoresExplored(A, ex, child) ==
  LET c == memoize(alg, problem, harg, child) IN
  IF ~PQContains(A, child)
  THEN PQAppend(A, c)
  ELSE IF c.f < PQGet(A, child).f
       THEN PQAppend(PQDel(A, child), c)
       ELSE A

\* lines 225-230 for one child
BFGSAfterChild(A, ex, child) ==
  LET c == memoize(alg, problem, harg, child) IN
  IF child.state \notin ex /\ ~PQContains(A, child)
  THEN PQAppend(A, c)
  ELSE IF PQContains(A, child)
       THEN IF c.f < PQGet(A, child).f
            THEN PQAppend(PQDel(A, child), c)
            ELSE A
       ELSE A

BFGSChild ==
  /\ IsBFGS(alg) /\ pc = "for" /\ children # <<>>
  /\ frontier' = BFGSAfterChild(frontier, explored, Head(children))
  /\ children' = Tail(children)
  /\ bstats' = LET c == memoize(alg, problem, harg, Head(children))
               IN [bstats EXCEPT
                     !.generated = @ \cup {<<c.state, c.f>>},
                     !.replaced = IF BFGSImproves(frontier, Head(children))
                                  THEN @ + 1 ELSE @]
  /\ pc' = IF children' = <<>> THEN "loop" ELSE "for"
  /\ UNCHANGED <<problem, harg, phase, alg, results, node, explored,
                 dlsVars, rbfsVars>>

\* line 238: the frontier is empty
BFGSFail ==
  /\ IsBFGS(alg) /\ pc = "loop" /\ frontier = <<>>
  /\ Return(ResNone)
  /\ pc' = "idle"
  /\ UNCHANGED <<problem, harg, node, frontier, explored, children, bstats,
                 dlsVars, rbfsVars>>

----------------------------------------------------------------------------
(* depth_limited_search and iterative_deepening_search *)

\* a frame of recursive_dls(node, problem, limit, explored)
DFrame(n, limit) ==
  [node |-> n, limit |-> limit, children |-> <<>>, cutoff_occurred |-> FALSE,
   pc |-> "start"]

\* lines 309-310: a fresh explored set and the call on the root
DLSBegin(limit) ==
  /\ dstack' = <<DFrame(Node(problem.initial, <<>>, 0, 0), limit)>>
  /\ dexplored' = {}
  /\ dret' = ResUnset
  /\ dstats' = [limit |-> limit, hit |-> FALSE]

\* iterative_deepening_search(problem): the first depth is 0
CallIDS ==
  /\ alg = "idle" /\ phase <= Len(Driver) /\ Driver[phase] = "ids"
  /\ alg' = "ids"
  /\ depth' = 0
  /\ DLSBegin(0)
  /\ UNCHANGED <<problem, harg, phase, results, bfgsVars, rbfsVars>>

\* variant of DLSBranch: the limit is looked at before the goal test
DLSBranch_LimitFirst(p, n, limit) ==
  IF limit = 0 THEN "cutoff"
  ELSE IF goal_test(p, n.state) THEN "goal"
  ELSE "expand"

\* lines 288-295: which branch a call of recursive_dls takes
DLSBranch(p, n, limit) ==
  IF goal_test(p, n.state) THEN "goal"
  ELSE IF limit = 0 THEN "cutoff"
  ELSE "expand"

\* observation: the call is on a node that is not a goal with limit 0
DLSAtBound(fr) == fr.limit = 0 /\ fr.node.state # problem.goal

\* lines 288-299 of the innermost call
DLSEnter ==
  /\ alg = "ids" /\ dstack # <<>> /\ Head(dstack).pc = "start"
  /\ LET fr == Head(dstack) IN
       IF DLSBranch(problem, fr.node, fr.limit) = "goal"
       THEN /\ dret' = ResNode(fr.node)
            /\ dstack' = Tail(dstack)
            /\ UNCHANGED dexplored
       ELSE IF DLSBranch(problem, fr.node, fr.limit) = "cutoff"
       THEN /\ dexplored' = dexplored \cup {fr.node.state}
            /\ dret' = ResCutoff
            /\ dstack' = Tail(dstack)
       ELSE /\ dexplored' = dexplored \cup {fr.node.state}
            /\ dstack' = <<[fr EXCEPT !.children = expand(problem, fr.node),
                                      !.cutoff_occurred = FALSE,
                                      !.pc = "for"]>> \o Tail(dstack)
            /\ UNCHANGED dret
  /\ dstats' = [dstats EXCEPT !.hit = @ \/ DLSAtBound(Head(dstack))]
  /\ UNCHANGED <<problem, harg, phase, alg, results, depth, bfgsVars, rbfsVars>>

\* line 301: the call on the next child
DLSRecurse ==
  /\ alg = "ids" /\ dstack # <<>> /\ Head(dstack).pc = "for"
  /\ dret = ResUnset /\ Head(dstack).children # <<>>
  /\ LET fr == Head(dstack) IN
       dstack' = <<DFrame(Head(fr.children), fr.limit - 1),
                   [fr EXCEPT !.children = Tail(fr.children)]>> \o Tail(dstack)
  /\ UNCHANGED <<problem, harg, phase, alg, results, depth, dret, dexplored,
                 dstats, bfgsVars, rbfsVars>>

\* variant of DLSExhausted: a cutoff below is reported as failure
DLSExhausted_Conflated(cutoff_occurred) == ResNone

\* line 306: what a call returns after its last child
DLSExhausted(cutoff_occurred) ==
  IF cutoff_occurred THEN ResCutoff ELSE ResNone

DLSLeave ==
  /\ alg = "ids" /\ dstack # <<>> /\ Head(dstack).pc = "for"
  /\ dret = ResUnset /\ Head(dstack).children = <<>>
  /\ dret' = DLSExhausted(Head(dstack).cutoff_occurred)
  /\ dstack' = Tail(dstack)
  /\ UNCHANGED <<problem, harg, phase, alg, results, depth, dexplored, dstats,
                 bfgsVars, rbfsVars>>

\* lines 302-305: the caller looks at what the child returned
DLSResult ==
  /\ alg = "ids" /\ dstack # <<>> /\ Head(dstack).pc = "for"
  /\ dret # ResUnset
  /\ LET fr == Head(dstack) IN
       IF dret.kind = "cutoff"
       THEN /\ dstack' = <<[fr EXCEPT !.cutoff_occurred = TRUE]>> \o Tail(dstack)
            /\ dret' = ResUnset
       ELSE IF dret.kind # "None"
       THEN /\ dstack' = Tail(dstack)
            /\ dret' = dret
       ELSE /\ dstack' = dstack
            /\ dret' = ResUnset
  /\ UNCHANGED <<problem, harg, phase, alg, results, depth, dexplored, dstats,
                 bfgsVars, rbfsVars>>

\* lines 316-317: a result other than 'cutoff' is returned
IDSReturn ==
  /\ alg = "ids" /\ dstack = <<>> /\ dret # ResUnset
  /\ dret.kind # "cutoff"
  /\ Return(dret)
  /\ UNCHANGED <<problem, harg, depth, dstack, dret, dexplored, dstats,
                 bfgsVars, rbfsVars>>

\* variant of NextDepth: the depth grows by two
NextDepth_ByTwo(d) == d + 2

\* line 314: the depth after d in range(sys.maxsize)
NextDepth(d) == d + 1

\* lines 314-315: 'cutoff', the next depth
IDSDeeper ==
  /\ alg = "ids" /\ dstack = <<>> /\ dret # ResUnset
  /\ dret.kind = "cutoff"
  /\ NextDepth(depth) <= MaxDepth(problem)
  /\ depth' = NextDepth(depth)
  /\ DLSBegin(depth')
  /\ UNCHANGED <<problem, harg, phase, alg, results, bfgsVars, rbfsVars>>

\* the next depth is past the depth the stack allows (MaxDepth): the call
\* returns no result
IDSAbandon ==
  /\ alg = "ids" /\ dstack = <<>> /\ dret # ResUnset
  /\ dret.kind = "cutoff"
  /\ NextDepth(depth) > MaxDepth(problem)
  /\ Return(ResAbandoned)
  /\ UNCHANGED <<problem, harg, depth, dstack, dret, dexplored, dstats,
                 bfgsVars, rbfsVars>>

----------------------------------------------------------------------------
(* recursive_best_first_search *)

NoRet == [result |-> ResUnset, f |-> 0]

\* a frame of RBFS(problem, node, flimit, path)
RFrame(n, flimit) ==
  [node |-> n, flimit |-> flimit, successors |-> <<>>, pc |-> "start"]

\* list.sort(key=lambda x: x.f): stable
RECURSIVE SortByF(_)
SortByF(s) ==
  IF s = <<>> THEN <<>>
  ELSE LET x == s[Len(s)]
           front == SortByF(SubSeq(s, 1, Len(s) - 1))
           k == Cardinality({i \in 1..Len(front) : front[i].f <= x.f})
       IN SubSeq(front, 1, k) \o <<x>> \o SubSeq(front, k + 1, Len(front))

\* variant of RBFSInitF: the f of the parent is not taken into account
RBFSInitF_NoMax(n, s) ==
  [s EXCEPT !.f = 2 * s.path_cost + h(problem, harg, s.state)]

\* lines 252-253: s.f = max(s.path_cost + h(s), node.f)
RBFSInitF(n, s) ==
  [s EXCEPT !.f = Max2(2 * s.path_cost + h(problem, harg, s.state), n.f)]

\* lines 269-272
CallRBFS ==
  /\ alg = "idle" /\ phase <= Len(Driver) /\ Driver[phase] = "rbfs"
  /\ alg' = "rbfs"
  /\ LET root == Node(problem.initial, <<>>, 0, 0) IN
       rstack' = <<RFrame([root EXCEPT !.f = h(problem, harg, root.state)],
                          infinity)>>
  /\ rret' = NoRet
  /\ rpath' = {}
  /\ UNCHANGED <<problem, harg, phase, results, bfgsVars, dlsVars>>

\* lines 246-253 of the innermost call
RBFSEnter ==
  /\ alg = "rbfs" /\ rstack # <<>> /\ Head(rstack).pc = "start"
  /\ LET fr == Head(rstack)
         successors == expand(problem, fr.node) IN
       IF goal_test(problem, fr.node.state)
       THEN /\ rpath' = rpath \cup {fr.node.state}
            /\ rret' = [result |-> ResNode(fr.node), f |-> 0]
            /\ rstack' = Tail(rstack)
       ELSE IF Len(successors) = 0
       THEN /\ rret' = [result |-> ResNone, f |-> infinity]
            /\ rstack' = Tail(rstack)
            /\ rpath' = rpath
       ELSE /\ rstack' =
                 <<[fr EXCEPT !.successors =
                       [i \in 1..Len(successors) |-> RBFSInitF(fr.node, successors[i])],
                              !.pc = "while"]>> \o Tail(rstack)
            /\ UNCHANGED <<rret, rpath>>
  /\ UNCHANGED <<problem, harg, phase, alg, results, bfgsVars, dlsVars>>

\* variant of Alternative: the second-best f is never taken as a bound
Alternative_Unbounded(successors) == infinity

\* lines 260-263
Alternative(successors) ==
  IF Len(successors) > 1 THEN successors[2].f ELSE infinity

\* lines 256-259: sort, and the f-limit is exceeded
RBFSOverLimit ==
  /\ alg = "rbfs" /\ rstack # <<>> /\ Head(rstack).pc = "while"
  /\ rret = NoRet
  /\ LET fr == Head(rstack)
         successors == SortByF(fr.successors)
         best == successors[1] IN
       /\ best.f > fr.flimit
       /\ rret' = [result |-> ResNone, f |-> best.f]
       /\ rstack' = Tail(rstack)
  /\ UNCHANGED <<problem, harg, phase, alg, results, rpath, bfgsVars, dlsVars>>

\* lines 256-265: sort, and the call on best
RBFSRecurse ==
  /\ alg = "rbfs" /\ rstack # <<>> /\ Head(rstack).pc = "while"
  /\ rret = NoRet
  /\ LET fr == Head(rstack)
         successors == SortByF(fr.successors)
         best == successors[1] IN
       /\ best.f <= fr.flimit
       /\ best.depth <= MaxDepth(problem)
       /\ rpath' = rpath \cup {fr.node.state}
       /\ rstack' = <<RFrame(best, Min2(fr.flimit, Alternative(successors))),
                      [fr EXCEPT !.successors = successors]>> \o Tail(rstack)
  /\ UNCHANGED <<problem, harg, phase, alg, results, rret, bfgsVars, dlsVars>>

\* the recursion goes deeper than the stack allows (the interpreter raises
\* RecursionError at its recursion limit, here MaxDepth): the call returns
\* no result
RBFSAbandon ==
  /\ alg = "rbfs" /\ rstack # <<>> /\ Head(rstack).pc = "while"
  /\ rret = NoRet
  /\ LET fr == Head(rstack)
         successors == SortByF(fr.successors)
         best == successors[1] IN
       /\ best.f <= fr.flimit
       /\ best.depth > MaxDepth(problem)
  /\ Return(ResAbandoned)
  /\ rstack' = <<>>
  /\ UNCHANGED <<problem, harg, rret, rpath, bfgsVars, dlsVars>>

\* lines 265-267: result, best.f = RBFS(...)
RBFSResult ==
  /\ alg = "rbfs" /\ rstack # <<>> /\ Head(rstack).pc = "while"
  /\ rret # NoRet
  /\ LET fr == Head(rstack)
         successors == [fr.successors EXCEPT ![1].f = rret.f] IN
       IF rret.result.kind # "None"
       THEN /\ rret' = [result |-> rret.result, f |-> successors[1].f]
            /\ rstack' = Tail(rstack)
       ELSE /\ rret' = NoRet
            /\ rstack' = <<[fr EXCEPT !.successors = successors]>> \o Tail(rstack)
  /\ UNCHANGED <<problem, harg, phase, alg, results, rpath, bfgsVars, dlsVars>>

\* lines 272-275: the root call has returned
RBFSReturn ==
  /\ alg = "rbfs" /\ rstack = <<>> /\ rret # NoRet
  /\ Return(rret.result)
  /\ UNCHANGED <<problem, harg, rstack, rret, rpath, bfgsVars, dlsVars>>

----------------------------------------------------------------------------
(* The specification *)

Next ==
  \/ CallUCS \/ CallGreedy \/ CallAStar
  \/ BFGSPop \/ BFGSChild \/ BFGSFail
  \/ CallIDS \/ DLSEnter \/ DLSRecurse \/ DLSLeave \/ DLSResult
  \/ IDSReturn \/ IDSDeeper \/ IDSAbandon
  \/ CallRBFS \/ RBFSEnter \/ RBFSOverLimit \/ RBFSRecurse \/ RBFSAbandon
  \/ RBFSResult \/ RBFSReturn

Spec == Init /\ [][Next]_vars

----------------------------------------------------------------------------
(* Reference definitions for the properties: reachability and optimal      *)
(* costs of a problem, computed from actions, result and path_cost alone   *)

Successors(p, state) ==
  LET acts == actions(p, state)
  IN {result(p, state, acts[i]) : i \in 1..Len(acts)}

RECURSIVE ReachFrom(_, _, _)
ReachFrom(p, seen, new) ==
  IF new = {} THEN seen
  ELSE LET next == UNION {Successors(p, s) : s \in new} \ seen
       IN ReachFrom(p, seen \cup next, next)

\* the states reachable from the initial state
Reachable(p) == ReachFrom(p, {p.initial}, {p.initial})

GoalReachable(p) == p.goal \in Reachable(p)

SetMin(S) == CHOOSE x \in S : \A y \in S : x <= y

\* the cost of one step; every step costs 1 when unit is TRUE
StepCost(p, state, action, unit) ==
  IF unit THEN 1
  ELSE path_cost(p, 0, state, action, result(p, state, action))

\* a cost table: a set of pairs <<state, cost>>, one per state
Lookup(d, s) == (CHOOSE pr \in d : pr[1] = s)[2]

\* one round of relaxation of the cost table d over the states S
Relax(p, S, unit, d) ==
  {<<s, IF s = p.goal THEN 0
        ELSE LET acts == actions(p, s)
             IN SetMin({infinity} \cup
                  {Min2(infinity, StepCost(p, s, acts[i], unit)
                                   + Lookup(d, result(p, s, acts[i]))) :
                     i \in 1..Len(acts)})>> : s \in S}

\* relaxation to the fixed point
RECURSIVE CostToGoal(_, _, _, _)
CostToGoal(p, S, unit, d) ==
  LET next == Relax(p, S, unit, d)
  IN IF next = d THEN d ELSE CostToGoal(p, S, unit, next)

\* the least cost (least number of steps when unit) of a path from each
\* reachable state to the goal, infinity when there is none
TrueCost(p, unit) ==
  LET S == Reachable(p)
  IN CostToGoal(p, S, unit, {<<s, IF s = p.goal THEN 0 ELSE infinity>> : s \in S})

OptCost(p) == Lookup(TrueCost(p, FALSE), p.initial)
MinDepth(p) == Lookup(TrueCost(p, TRUE), p.initial)

\* the cost of following a list of actions
RECURSIVE PathCostOf(_, _, _)
PathCostOf(p, state, acts) ==
  IF acts = <<>> THEN 0
  ELSE StepCost(p, state, Head(acts), FALSE)
       + PathCostOf(p, result(p, state, Head(acts)), Tail(acts))

\* every action of the list is one that actions() offers where it is taken
RECURSIVE IsPath(_, _, _)
IsPath(p, state, acts) ==
  \/ acts = <<>>
  \/ /\ InSeq(Head(acts), actions(p, state))
     /\ IsPath(p, result(p, state, Head(acts)), Tail(acts))

\* n is a node of the search tree of p: its fields agree with its path
IsTreeNode(p, n) ==
  /\ IsPath(p, p.initial, n.path)
  /\ ApplyAll(p, p.initial, n.path) = n.state
  /\ PathCostOf(p, p.initial, n.path) = n.path_cost
  /\ Len(n.path) = n.depth

NonNegativeCosts(p) ==
  \A s \in Reachable(p) :
    \A i \in 1..Len(actions(p, s)) : StepCost(p, s, actions(p, s)[i], FALSE) >= 0

EqualCosts(p) ==
  \A s, t \in Reachable(p) :
    \A i \in 1..Len(actions(p, s)) : \A j \in 1..Len(actions(p, t)) :
      StepCost(p, s, actions(p, s)[i], FALSE) = StepCost(p, t, actions(p, t)[j], FALSE)

\* h never overestimates the cost to the goal (half units against whole)
Admissible(p, ha) ==
  LET d == TrueCost(p, FALSE)
  IN \A pr \in d : pr[2] < infinity => h(p, ha, pr[1]) <= 2 * pr[2]

\* h(goal) = 0 and h(s) <= cost(s, a, s') + h(s')
Consistent(p, ha) ==
  /\ p.goal \in Reachable(p) => h(p, ha, p.goal) = 0
  /\ \A s \in Reachable(p) :
       \A i \in 1..Len(actions(p, s)) :
         LET a == actions(p, s)[i]
         IN h(p, ha, s) <= 2 * StepCost(p, s, a, FALSE) + h(p, ha, result(p, s, a))

\* the call that the driver made last has just returned
JustReturned(a) ==
  alg = "idle" /\ phase > 1 /\ phase <= Len(Driver) + 1 /\ Driver[phase - 1] = a

\* depth_limited_search has returned to iterative_deepening_search
DLSReturned == alg = "ids" /\ dstack = <<>> /\ dret # ResUnset

----------------------------------------------------------------------------
(* Properties *)

\* C1 (as amended): whenever uniform-cost, greedy, A*, iterative-deepening
\* or recursive best-first search returns a result that is not failure, and
\* whenever depth_limited_search returns a result that is neither failure
\* nor 'cutoff', the result is a Node whose state passes goal_test.
C1_NonFailureIsGoalNode ==
  /\ \A a \in Algs :
       results[a].kind \notin {"unset", "abandoned", "None"} =>
         /\ results[a].kind = "node"
         /\ goal_test(problem, results[a].node.state)
  /\ (DLSReturned /\ dret.kind \notin {"None", "cutoff"}) =>
         /\ dret.kind = "node"
         /\ goal_test(problem, dret.node.state)

\* C1 witness: all five searches have returned a node
C1_Witness ==
  /\ phase = Len(Driver) + 1
  /\ \A a \in Algs : results[a].kind = "node"

\* C1 as stated: every result that is not failure is a goal Node, also for
\* depth_limited_search (whose 'cutoff' is neither)
C1_AsStated ==
  /\ \A a \in Algs :
       results[a].kind \notin {"unset", "abandoned", "None"} =>
         /\ results[a].kind = "node"
         /\ goal_test(problem, results[a].node.state)
  /\ (DLSReturned /\ dret.kind # "None") =>
         /\ dret.kind = "node"
         /\ goal_test(problem, dret.node.state)

\* C2: on a problem with non-negative step costs and a reachable goal,
\* uniform_cost_search returns a node of the search tree at a goal state
\* whose path_cost is the least cost of any path from the initial state to
\* the goal.
C2_UCSOptimal ==
  (JustReturned("ucs") /\ NonNegativeCosts(problem) /\ GoalReachable(problem)) =>
     /\ results["ucs"].kind = "node"
     /\ results["ucs"].node.state = problem.goal
     /\ IsTreeNode(problem, results["ucs"].node)
     /\ results["ucs"].node.path_cost = OptCost(problem)

\* C2 witness: uniform-cost search returned a two-step path although a
\* costlier direct edge to the goal exists
C2_Witness ==
  /\ JustReturned("ucs") /\ problem.kind = "graph"
  /\ results["ucs"].kind = "node"
  /\ problem.cost[<<1, 3>>] # NoEdge
  /\ results["ucs"].node.path_cost < problem.cost[<<1, 3>>]

C4_IDSMinDepth ==
  (JustReturned("ids") /\ EqualCosts(problem)) =>
     /\ results["ids"].kind = "node" =>
          /\ results["ids"].node.state = problem.goal
          /\ IsTreeNode(problem, results["ids"].node)
          /\ results["ids"].node.depth = MinDepth(problem)
     /\ MinDepth(problem) <= MaxDepth(problem) => results["ids"].kind = "node"

\* C4 witness: iterative deepening returned a node of depth 2 or more on a
\* problem whose step costs are all equal
C4_Witness ==
  /\ JustReturned("ids") /\ EqualCosts(problem)
  /\ results["ids"].kind = "node"
  /\ results["ids"].node.depth >= 2

\* every step of the problem costs more than nothing
PositiveCosts(p) ==
  \A s \in Reachable(p) :
    \A i \in 1..Len(actions(p, s)) : StepCost(p, s, actions(p, s)[i], FALSE) > 0

C6_LimitZero ==
  (DLSReturned /\ dstats.limit = 0) =>
     IF problem.initial = problem.goal
     THEN dret = ResNode(Node(problem.initial, <<>>, 0, 0))
     ELSE dret = ResCutoff

\* C6 witness: the call with limit 0 returned the root node
C6_Witness ==
  /\ DLSReturned /\ dstats.limit = 0
  /\ dret.kind = "node"

\* C7: when depth_limited_search returns no goal node, it returns 'cutoff'
\* exactly when some call of the run was on a non-goal node with limit 0,
\* and failure exactly when none was.
C7_CutoffIffBoundHit ==
  (DLSReturned /\ dret.kind # "node") =>
     /\ dret.kind = "cutoff" <=> dstats.hit
     /\ dret.kind = "None" <=> ~dstats.hit

\* C7 witness: a run with a positive limit returned failure
C7_Witness ==
  /\ DLSReturned /\ dstats.limit >= 1
  /\ dret.kind = "None" /\ ~dstats.hit

\* C8: on missionaries-and-cannibals from (3,3,1) to (0,0,0), every one of
\* the five searches of the driver terminates with a node, and applying
\* result() along its solution() from (3,3,1) ends in (0,0,0).  The run on
\* this problem has no choice in it, so it is stated on its states: no call
\* ends in failure or is given up, and every call returns a node whose
\* solution() is a path of the problem that ends in (0,0,0); the state
\* C8_Witness, where the fifth call has returned, is where the run ends.
C8_MCSolved ==
  (problem = missandcan) =>
     /\ \A a \in Algs : results[a].kind \in {"unset", "node"}
     /\ \A a \in Algs :
          JustReturned(a) =>
             /\ results[a].kind = "node"
             /\ IsPath(problem, <<3, 3, 1>>, solution(results[a].node))
             /\ ApplyAll(problem, <<3, 3, 1>>, solution(results[a].node))
                  = <<0, 0, 0>>

\* C8 witness: the driver is through its five calls on that problem, each
\* with a solution that leads to (0,0,0)
C8_Witness ==
  /\ problem = missandcan
  /\ phase = Len(Driver) + 1
  /\ \A a \in Algs :
       /\ results[a].kind = "node"
       /\ ApplyAll(problem, <<3, 3, 1>>, solution(results[a].node)) = <<0, 0, 0>>

\* cannibals outnumber missionaries on neither bank
MCSafe(state) ==
  /\ ~(state[1] > 0 /\ state[2] > state[1])
  /\ ~(3 - state[1] > 0 /\ 3 - state[2] > 3 - state[1])

\* C9: on missionaries-and-cannibals, every state along the action sequence
\* that a search returns satisfies the safety rule: cannibals outnumber
\* missionaries on neither bank.
C9_SolutionsSafe ==
  problem = missandcan =>
    \A a \in Algs :
      results[a].kind = "node" =>
        LET states == StatesAlong(problem, problem.initial,
                                  solution(results[a].node))
        IN \A i \in 1..Len(states) : MCSafe(states[i])

\* a step of best_first_graph_search either returns, and then failure
\* exactly when no goal state is reachable and a goal node otherwise, or
\* moves on in a well-founded order: the explored set grows inside the
\* finite set of reachable states, or it stays and the for loop has one
\* child less to go
C10_Step ==
  IsBFGS(alg) =>
    IF alg' = "idle"
    THEN IF GoalReachable(problem)
         THEN /\ results'[alg].kind = "node"
              /\ results'[alg].node.state = problem.goal
         ELSE results'[alg].kind = "None"
    ELSE \/ /\ explored \subseteq explored' /\ explored # explored'
            /\ explored' \subseteq Reachable(problem)
         \/ /\ explored' = explored
            /\ Len(children') < Len(children)

\* C10: over a finite state space best_first_graph_search terminates for
\* each evaluation function (every step that does not return decreases a
\* well-founded measure), it returns failure only when no goal state is
\* reachable from the initial state, and a goal node whenever one is.
C10_BFGSComplete == [][C10_Step]_vars

\* C10 witness: greedy search returned failure on a graph with a cycle
C10_Witness ==
  /\ JustReturned("greedy") /\ results["greedy"].kind = "None"
  /\ problem.kind = "graph"
  /\ problem.cost[<<1, 2>>] # NoEdge /\ problem.cost[<<2, 1>>] # NoEdge

\* C11: on a finite state space with no reachable goal, cycles or not, some
\* depth limit makes depth_limited_search return failure, upon which
\* iterative_deepening_search stops with failure.  A path longer than the
\* number of reachable states repeats a state, so that limit is at most the
\* number of reachable states: a run with a limit that large, or larger,
\* returns failure and not 'cutoff'.
C11_IDSStops ==
  (DLSReturned /\ ~GoalReachable(problem)
     /\ dstats.limit >= Cardinality(Reachable(problem))) =>
     dret.kind = "None"

\* the path_cost with which a state was popped and expanded in this run
ExpandedCost(state) ==
  LET i == CHOOSE k \in 1..Len(bstats.expanded) :
             bstats.expanded[k].state = state
  IN bstats.expanded[i].path_cost

\* the states added to explored in this run, each added once
ExpandedOnce ==
  \A i, j \in 1..Len(bstats.expanded) :
    i # j => bstats.expanded[i].state # bstats.expanded[j].state

\* C12: in astar_search with a consistent heuristic, every generated child
\* whose state is already in explored has a path_cost no smaller than the
\* path_cost of the node with which that state was expanded, and no state is
\* added to explored twice in one run.
C12_NoCheaperAfterExpansion ==
  (alg = "astar" /\ Consistent(problem, harg)) =>
     /\ \A i \in 1..Len(children) :
          children[i].state \in explored =>
            children[i].path_cost >= ExpandedCost(children[i].state)
     /\ ExpandedOnce

\* C12 witness: under a consistent heuristic that is not zero everywhere, A*
\* generates a child for a state it expanded over another path before
C12_Witness ==
  /\ alg = "astar" /\ Consistent(problem, harg) /\ harg # NoH
  /\ pc = "for"
  /\ Head(children).state \in explored
  /\ Head(children).state # problem.initial
  /\ Len(bstats.expanded) >= 3

\* C13: at every point of a best_first_graph_search run the frontier holds at
\* most one node per state, also right after a replace-on-improve.
C13_OnePerState ==
  IsBFGS(alg) =>
    \A i, j \in 1..Len(frontier) :
      i # j => frontier[i].state # frontier[j].state

\* C13 witness: the queue after a replace-on-improve, the replacing node
\* in it
C13_Witness ==
  /\ IsBFGS(alg) /\ frontier # <<>>
  /\ bstats.replaced >= 1

\* every queued node carries the least f of all the nodes generated for its
\* state in this run
StoredIsMin ==
  IsBFGS(alg) =>
    \A i \in 1..Len(frontier) :
      frontier[i].f =
        SetMin({pr[2] : pr \in {q \in bstats.generated : q[1] = frontier[i].state}})

\* the step of lines 225-230 for a child whose state is queued
C14_Step ==
  /\ (IsBFGS(alg) /\ pc = "for" /\ PQContains(frontier, Head(children))) =>
       LET child == Head(children)
           c == memoize(alg, problem, harg, child)
           stored == PQGet(frontier, child)
       IN IF c.f < stored.f
          THEN /\ \E i \in 1..Len(frontier') : frontier'[i] = c
               /\ \A i \in 1..Len(frontier') : frontier'[i] # stored
               /\ Len(frontier') = Len(frontier)
          ELSE frontier' = frontier
  /\ StoredIsMin /\ StoredIsMin'

\* C14: replace-on-improve.  When a generated child's state is queued and
\* f(child) < f(stored node), the stored node is removed and the child
\* inserted; otherwise the stored node is kept.  So every queued node has the
\* least f of all nodes generated for its state since it entered the queue.
C14_ReplaceOnImprove == [][C14_Step]_vars

\* C14 witness: uniform-cost search has replaced the direct path to <<3>> by
\* the cheaper one over <<2>>
C14_Witness ==
  /\ alg = "ucs" /\ bstats.replaced = 1
  /\ \E i \in 1..Len(frontier) : frontier[i].path = << <<2>>, <<3>> >>

\* s comes before t in the order of tuples of equal length: at the first
\* position where they differ s has the smaller entry
ComesBefore(s, t) ==
  \E k \in 1..Len(s) :
    /\ \A j \in 1..(k - 1) : s[j] = t[j]
    /\ s[k] < t[k]

\* the step of line 218
C15_Step ==
  (IsBFGS(alg) /\ pc = "loop" /\ frontier # <<>>) =>
     /\ \E i \in 1..Len(frontier) : frontier[i] = node'
     /\ \A i \in 1..Len(frontier) :
          /\ node'.f <= frontier[i].f
          /\ (frontier[i].f = node'.f /\ frontier[i] # node') =>
               ComesBefore(node'.state, frontier[i].state)

\* C15: at every iteration of best_first_graph_search the node that
\* frontier.pop() removes has the smallest f of all nodes in the frontier at
\* that moment, and among those of that f the state that comes first in the
\* order of states.
C15_PopsMinimum == [][C15_Step]_vars

\* C15 witness: a node has just been popped while another node of the same f
\* stays in the queue
C15_Witness ==
  /\ IsBFGS(alg) /\ pc = "for"
  /\ children = expand(problem, node)
  /\ \E i \in 1..Len(frontier) : frontier[i].f = node.f

\* C16: within one depth_limited_search run the explored set deduplicates by
\* state: recursive_dls is not called on (visits, expands) a node whose
\* state is already in explored.
C16_ExploredDedups ==
  (alg = "ids" /\ dstack # <<>> /\ Head(dstack).pc = "start") =>
     Head(dstack).node.state \notin dexplored

\* C17: in recursive_best_first_search the backed-up f never decreases along
\* a path: in every active RBFS frame every successor s of the frame's node
\* has s.f >= node.f, when s.f has been set to max(s.path_cost + h(s),
\* node.f) and after it was overwritten by what a failed call returned.
C17_BackedUpMonotone ==
  alg = "rbfs" =>
    \A k \in 1..Len(rstack) :
      \A i \in 1..Len(rstack[k].successors) :
        rstack[k].successors[i].f >= rstack[k].node.f

\* C17 witness: a frame below the root in which the value a failed call
\* returned has been written over a successor's f (that f is greater than
\* both the successor's own estimate and the f of the frame's node)
C17_Witness ==
  /\ alg = "rbfs" /\ Len(rstack) >= 2 /\ rret = NoRet
  /\ Head(rstack).pc = "while"
  /\ \E i \in 1..Len(Head(rstack).successors) :
       LET s == Head(rstack).successors[i]
       IN /\ s.f > 2 * s.path_cost + h(problem, harg, s.state)
          /\ s.f > Head(rstack).node.f
          /\ s.f < infinity

\* C18: an RBFS call that returns failure after it was invoked with f-limit
\* L returns a backed-up value greater than L (or infinity when the node has
\* no successors), and the caller's overwrite of best.f with that value
\* makes best.f strictly greater, so that the sort/select loop makes
\* progress.  Stated where the failed call has returned to the caller,
\* before line 265 assigns: L is min(flimit, alternative) of the caller and
\* best is the first of its sorted successors.
C18_FailureRaisesF ==
  (alg = "rbfs" /\ rstack # <<>> /\ Head(rstack).pc = "while"
     /\ rret # NoRet /\ rret.result.kind = "None") =>
     LET fr == Head(rstack)
         best == fr.successors[1]
         L == Min2(fr.flimit, Alternative(fr.successors))
     IN /\ rret.f > L \/ rret.f = infinity
        /\ rret.f > best.f

\* C19: at every loop iteration of best_first_graph_search the frontier and
\* the explored set are disjoint as sets of states, and each state is
\* expanded at most once per run, whatever f is: explored is the set of the
\* states of the nodes expanded, all different.
C19_FrontierExploredDisjoint ==
  IsBFGS(alg) =>
    /\ \A i \in 1..Len(frontier) : frontier[i].state \notin explored
    /\ ExpandedOnce
    /\ explored = {bstats.expanded[i].state : i \in 1..Len(bstats.expanded)}

\* C19 witness: greedy search is handling a child whose state is in explored
\* while other states wait in the frontier
C19_Witness ==
  /\ alg = "greedy" /\ pc = "for"
  /\ Head(children).state \in explored
  /\ frontier # <<>>
  /\ Cardinality(explored) >= 2

\* MissionaryAndCannibals.actions(state) raises ValueError: one of its
\* removes (lines 85-110, or line 115 of the final loop) finds the action
\* gone from the list
MCRaises(state) ==
  LET possible_actions == RemoveEach(MCBase(state), MCRemovals(state))
  IN \/ RemoveRaises(MCBase(state), MCRemovals(state))
     \/ RemoveRaises(possible_actions,
                     SelectSeq(possible_actions, LAMBDA i : MCRejects(state, i)))

MCInRange(state) ==
  /\ state[1] \in 0..3 /\ state[2] \in 0..3 /\ state[3] \in {0, 1}

\* the states of all the nodes the searches hold
SearchStates ==
  {node.state} \cup {frontier[i].state : i \in 1..Len(frontier)}
  \cup {children[i].state : i \in 1..Len(children)}
  \cup {dstack[k].node.state : k \in 1..Len(dstack)}
  \cup UNION {{dstack[k].children[i].state : i \in 1..Len(dstack[k].children)} :
                k \in 1..Len(dstack)}
  \cup {rstack[k].node.state : k \in 1..Len(rstack)}
  \cup UNION {{rstack[k].successors[i].state : i \in 1..Len(rstack[k].successors)} :
                k \in 1..Len(rstack)}

\* C20: search on missionaries-and-cannibals never raises.  For every state
\* reachable from (3,3,1) through actions()/result(), and so for every state
\* of a node of any of the searches, actions(state) removes no action that
\* is gone already; (0,0,1) and (3,3,0), where (-1,-1,-1) resp. (1,1,1)
\* would be removed twice, are not reachable; and every reachable state
\* (m, c, b) has 0 <= m <= 3, 0 <= c <= 3 and b in {0, 1}.
C20_NeverRaises ==
  problem.kind = "mc" =>
    /\ alg = "idle" =>
         /\ \A s \in Reachable(problem) : MCInRange(s) /\ ~MCRaises(s)
         /\ <<0, 0, 1>> \notin Reachable(problem)
         /\ <<3, 3, 0>> \notin Reachable(problem)
         /\ MCRaises(<<0, 0, 1>>) /\ MCRaises(<<3, 3, 0>>)
    /\ \A s \in SearchStates \ {<<>>} : MCInRange(s) /\ ~MCRaises(s)

\* C20 witness: uniform-cost search has expanded a state with no cannibal on
\* the bank of the boat, where actions() takes three actions off its list
C20_Witness ==
  /\ problem.kind = "mc" /\ alg = "ucs" /\ pc = "for"
  /\ node.state[2] = 0 /\ node.state[3] = 1
  /\ children = expand(problem, node)

====
